---- MODULE Spec2Model ----
(***************************************************************************)
(* Model of the unified-diff parser of ai_code_reviewer                    *)
(* (src/ai_code_reviewer/parsers/diff_parser.py).                          *)
(*                                                                         *)
(* Text is a TLA+ string; the regular expressions, str.startswith,         *)
(* str.split, str.strip, slicing and int() are operators on strings that   *)
(* compute what the Python functions compute.  Optional values are         *)
(* sequences of length at most one: None is <<>>, a present value v is     *)
(* <<v>>.  One call of DiffParser.parse is the sequence of actions         *)
(* parse, one action per iteration of the while loop (named after the      *)
(* branch the iteration takes), Finish.                                    *)
(***************************************************************************)
EXTENDS Integers, Sequences, FiniteSets, TLC

VARIABLES
    client,        \* which calling pattern the caller follows
    calls,         \* number of calls of parse started on this DiffParser
    history,       \* <<[diff, result]>> of the calls that returned
    entry,         \* the entry point the caller used, and the file it named
    pc,            \* "idle" | "loop" | "done", or the exception that left the call
    diff,          \* parse's argument
    lines,         \* diff.split('\n')
    i,             \* loop index (0-based, as in the code)
    file_diffs,    \* list[FileDiff]
    current_file,  \* Optional[FileDiff]
    current_hunk,  \* Optional[DiffHunk]
    old_line,      \* old-file cursor
    new_line,      \* new-file cursor
    derived        \* None, or [fn, arg, result]: the last value a caller derived
                   \* from a hunk or with the range utilities

vars == <<client, calls, history, entry, pc, diff, lines, i, file_diffs,
          current_file, current_hunk, old_line, new_line, derived>>

(***************************************************************************)
(* Bounds.                                                                 *)
(***************************************************************************)
MaxLines == 5
MaxShort == 3
MaxCalls == 3
MaxStart == 11
MaxCount == 11
MaxBody == 4
MaxMarkers == 4
MaxRanges == 3
MaxCoord == 3
MaxFileLines == 3
MaxHunkStart == 5
MaxHunkCount == 2
MaxContext == 1

(***************************************************************************)
(* Optional values.                                                        *)
(***************************************************************************)
None == <<>>
Some(v) == <<v>>
Get(o) == o[1]

(***************************************************************************)
(* Python string primitives.                                               *)
(***************************************************************************)
\* s[k-1] of Python for a 1-based k inside the string, "" outside
Char(s, k) == IF k >= 1 /\ k <= Len(s) THEN SubSeq(s, k, k) ELSE ""

\* s[k:] (0-based k, clamped as Python slices are)
From(s, k) == IF k >= Len(s) THEN "" ELSE SubSeq(s, k + 1, Len(s))

\* s.startswith(p)
StartsWith(s, p) == Len(s) >= Len(p) /\ SubSeq(s, 1, Len(p)) = p

\* p occurs in s at the 1-based position k
At(s, k, p) == k >= 1 /\ k + Len(p) - 1 <= Len(s) /\ SubSeq(s, k, k + Len(p) - 1) = p

RECURSIVE Split(_)
\* s.split('\n')
Split(s) ==
    IF \E k \in 1..Len(s) : Char(s, k) = "\n"
    THEN LET k == CHOOSE k \in 1..Len(s) :
                     Char(s, k) = "\n" /\ \A j \in 1..(k - 1) : Char(s, j) # "\n"
         IN  <<SubSeq(s, 1, k - 1)>> \o Split(From(s, k))
    ELSE <<s>>

RECURSIVE Join(_)
\* '\n'.join(ls)
Join(ls) ==
    IF ls = <<>> THEN ""
    ELSE IF Len(ls) = 1 THEN ls[1]
    ELSE ls[1] \o "\n" \o Join(Tail(ls))

Whitespace == {" ", "\t", "\r", "\f"}

RECURSIVE LStrip(_)
LStrip(s) == IF s # "" /\ Char(s, 1) \in Whitespace THEN LStrip(From(s, 1)) ELSE s

RECURSIVE RStrip(_)
RStrip(s) ==
    IF s # "" /\ Char(s, Len(s)) \in Whitespace
    THEN RStrip(SubSeq(s, 1, Len(s) - 1)) ELSE s

\* s.strip()
Strip(s) == RStrip(LStrip(s))

Digits == {"0", "1", "2", "3", "4", "5", "6", "7", "8", "9"}

DigitVal(c) ==
    CASE c = "0" -> 0 [] c = "1" -> 1 [] c = "2" -> 2 [] c = "3" -> 3
      [] c = "4" -> 4 [] c = "5" -> 5 [] c = "6" -> 6 [] c = "7" -> 7
      [] c = "8" -> 8 [] c = "9" -> 9

RECURSIVE ToInt(_)
\* int(s) for a non-empty string of decimal digits
ToInt(s) ==
    IF Len(s) = 1 THEN DigitVal(s)
    ELSE 10 * ToInt(SubSeq(s, 1, Len(s) - 1)) + DigitVal(Char(s, Len(s)))

\* int(s) returns for a non-empty string of decimal digits; it raises
\* ValueError for a string with any other character
IntOk(s) == s # "" /\ \A k \in 1..Len(s) : Char(s, k) \in Digits

RECURSIVE DigitRun(_, _)
\* length of the longest run of digits of s that starts at position k
DigitRun(s, k) == IF Char(s, k) \in Digits THEN 1 + DigitRun(s, k + 1) ELSE 0

(***************************************************************************)
(* The four regular expressions of DiffParser.                            *)
(***************************************************************************)
FileHeaderPrefix == "diff --git a/"

\* FILE_HEADER_PATTERN.match(line): None or Some([g1, g2]).  Both groups are
\* greedy, so the separator " b/" is the last one of the line.
FILE_HEADER_PATTERN(line) ==
    LET first == Len(FileHeaderPrefix) + 1
        seps  == {p \in first..Len(line) : At(line, p, " b/")}
    IN  IF StartsWith(line, FileHeaderPrefix) /\ seps # {}
        THEN LET p == CHOOSE p \in seps : \A q \in seps : q <= p
             IN  Some([g1 |-> SubSeq(line, first, p - 1), g2 |-> From(line, p + 2)])
        ELSE None

\* OLD_FILE_PATTERN.match(line): None or Some([g1])
OLD_FILE_PATTERN(line) ==
    IF StartsWith(line, "--- ")
    THEN LET rest == From(line, 4)
         IN  Some([g1 |-> IF StartsWith(rest, "a/") THEN From(rest, 2) ELSE rest])
    ELSE None

\* NEW_FILE_PATTERN.match(line): None or Some([g1])
NEW_FILE_PATTERN(line) ==
    IF StartsWith(line, "+++ ")
    THEN LET rest == From(line, 4)
         IN  Some([g1 |-> IF StartsWith(rest, "b/") THEN From(rest, 2) ELSE rest])
    ELSE None

\* RangeMatch for ([^ ,]+)(?:,(\d+))?: the start is any run of characters
RangeMatch_anyStart(s, k) ==
    LET n1 == CHOOSE n \in 0..Len(s) :
                  /\ Char(s, k + n) \in {" ", ",", ""}
                  /\ \A j \in 0..(n - 1) : Char(s, k + j) \notin {" ", ",", ""}
        n2 == IF Char(s, k + n1) = "," THEN DigitRun(s, k + n1 + 1) ELSE 0
    IN  IF n1 = 0 THEN None
        ELSE IF n2 = 0
             THEN Some([start |-> SubSeq(s, k, k + n1 - 1), count |-> None,
                        next |-> k + n1])
             ELSE Some([start |-> SubSeq(s, k, k + n1 - 1),
                        count |-> Some(SubSeq(s, k + n1 + 1, k + n1 + n2)),
                        next |-> k + n1 + 1 + n2])

\* (\d+)(?:,(\d+))? matched at position k: None or
\* Some([start, count, next]) with count an optional string and next the
\* position after the match
RangeMatch(s, k) ==
    LET n1 == DigitRun(s, k)
        n2 == IF Char(s, k + n1) = "," THEN DigitRun(s, k + n1 + 1) ELSE 0
    IN  IF n1 = 0 THEN None
        ELSE IF n2 = 0
             THEN Some([start |-> SubSeq(s, k, k + n1 - 1), count |-> None,
                        next |-> k + n1])
             ELSE Some([start |-> SubSeq(s, k, k + n1 - 1),
                        count |-> Some(SubSeq(s, k + n1 + 1, k + n1 + n2)),
                        next |-> k + n1 + 1 + n2])

\* HUNK_HEADER_PATTERN.match(line): None or Some([g1, g2, g3, g4, g5]),
\* g2 and g4 optional
HUNK_HEADER_PATTERN(line) ==
    IF ~StartsWith(line, "@@ -") THEN None
    ELSE LET r1 == RangeMatch(line, 5)
         IN  IF r1 = None \/ ~At(line, Get(r1).next, " +") THEN None
             ELSE LET r2 == RangeMatch(line, Get(r1).next + 2)
                  IN  IF r2 = None \/ ~At(line, Get(r2).next, " @@") THEN None
                      ELSE Some([g1 |-> Get(r1).start, g2 |-> Get(r1).count,
                                 g3 |-> Get(r2).start, g4 |-> Get(r2).count,
                                 g5 |-> From(line, Get(r2).next + 2)])

(***************************************************************************)
(* Data model.                                                             *)
(***************************************************************************)
DiffLine(content, line_type, old_line_number, new_line_number) ==
    [content |-> content, line_type |-> line_type,
     old_line_number |-> old_line_number, new_line_number |-> new_line_number]

DiffHunk(old_start, old_count, new_start, new_count, header) ==
    [old_start |-> old_start, old_count |-> old_count,
     new_start |-> new_start, new_count |-> new_count,
     lines |-> <<>>, header |-> header]

\* DiffHunk.additions, lines 36-38
IsAdditionLine(l) == l.line_type = "addition"
additions(h) == SelectSeq(h.lines, IsAdditionLine)

\* `if l.new_line_number`, line 46: None and 0 are false
HasTruthyNumber(l) == l.new_line_number # None /\ Get(l.new_line_number) # 0

\* DiffHunk.changed_new_lines, lines 44-46
changed_new_lines(h) ==
    LET kept == SelectSeq(additions(h), HasTruthyNumber)
    IN  [k \in 1..Len(kept) |-> Get(kept[k].new_line_number)]

\* DiffHunk.deletions, lines 40-42
IsDeletionLine(l) == l.line_type = "deletion"
deletions(h) == SelectSeq(h.lines, IsDeletionLine)

\* the prefix table of lines 52-56
PrefixOf(line_type) ==
    CASE line_type = "context" -> " "
      [] line_type = "addition" -> "+"
      [] line_type = "deletion" -> "-"

\* DiffHunk.get_context, lines 48-57 (the parameter `lines` is not used)
get_context(h) ==
    Join([k \in 1..Len(h.lines) |-> PrefixOf(h.lines[k].line_type) \o h.lines[k].content])

FileDiff(file_path, old_path) ==
    [file_path |-> file_path, old_path |-> old_path, hunks |-> <<>>,
     is_new_file |-> FALSE, is_deleted_file |-> FALSE, is_renamed |-> FALSE]

NotAddition(l) == l.line_type # "addition"
NotDeletion(l) == l.line_type # "deletion"
ContentsOf(ls) == [k \in 1..Len(ls) |-> ls[k].content]

RECURSIVE OldContents(_)
\* lines 71-75: the result list of old_content after the loop over hunks
OldContents(hunks) ==
    IF hunks = <<>> THEN <<>>
    ELSE ContentsOf(SelectSeq(hunks[1].lines, NotAddition)) \o OldContents(Tail(hunks))

RECURSIVE NewContents(_)
\* lines 80-84: the result list of new_content after the loop over hunks
NewContents(hunks) ==
    IF hunks = <<>> THEN <<>>
    ELSE ContentsOf(SelectSeq(hunks[1].lines, NotDeletion)) \o NewContents(Tail(hunks))

\* old_content reading the first hunk alone
old_content_firstHunk(f) ==
    Join(IF f.hunks = <<>> THEN <<>> ELSE OldContents(<<f.hunks[1]>>))

\* FileDiff.old_content, lines 69-76
old_content(f) == Join(OldContents(f.hunks))

\* FileDiff.new_content, lines 78-85
new_content(f) == Join(NewContents(f.hunks))

RECURSIVE sum(_)
\* sum(ns) of a generator's values
sum(ns) == IF ns = <<>> THEN 0 ELSE ns[1] + sum(Tail(ns))

\* total_additions counting every changed line
total_additions_countsChanged(f) ==
    sum([k \in 1..Len(f.hunks) |->
            Len(additions(f.hunks[k])) + Len(deletions(f.hunks[k]))])

\* FileDiff.total_additions, lines 87-89
total_additions(f) == sum([k \in 1..Len(f.hunks) |-> Len(additions(f.hunks[k]))])

\* FileDiff.total_deletions, lines 91-93
total_deletions(f) == sum([k \in 1..Len(f.hunks) |-> Len(deletions(f.hunks[k]))])

(***************************************************************************)
(* Inputs.  A diff is text: lines joined by newlines.  The alphabet has    *)
(* one line or more of every form the parser distinguishes; its core is    *)
(* the file header, the hunk headers and the hunk-body lines.              *)
(***************************************************************************)
CoreAlphabet ==
    { "diff --git a/x b/y",      \* file header
      "@@ -1,2 +3,0 @@ h",       \* hunk header, counts written
      "@@ -2 +0 @@",             \* hunk header, counts omitted
      "+p",
      "-q",
      " r" }

Alphabet ==
    CoreAlphabet \cup
    { "",                        \* the empty line
      "diff --git a/y b/",       \* file header whose second path group is empty
      "--- a/x",                 \* old-file marker
      "new file mode 1",
      "deleted file mode 1",
      "rename from x",
      "rename to y",
      "+++ b/z",                 \* new-file marker
      "@@ -x +1 @@",             \* "@@" line that is no hunk header
      "\\ n" }                   \* a line no branch recognizes

LineSeqs(A, n) == UNION {[1..k -> A] : k \in 1..n}

\* every text of at most MaxLines lines over the core alphabet, and every
\* text of at most MaxShort lines over the whole alphabet
Inputs ==
    {Join(ls) : ls \in LineSeqs(CoreAlphabet, MaxLines) \cup LineSeqs(Alphabet, MaxShort)}

\* the texts a caller that calls parse repeatedly passes: every line alone,
\* every line after a hunk header, and a two-file diff
RepeatInputs ==
    {l : l \in Alphabet}
        \cup {Join(<<"@@ -2 +0 @@", l>>) : l \in Alphabet}
        \cup {Join(<<"diff --git a/x b/y", "@@ -2 +0 @@", "+p", "diff --git a/y b/">>)}

\* str(n) for a natural number n
RECURSIVE Dec(_)
Dec(n) ==
    IF n < 10 THEN SubSeq("0123456789", n + 1, n + 1)
    ELSE Dec(n \div 10) \o Dec(n % 10)

\* ",<count>" when the count is written, nothing when it is omitted
CountText(count) == IF count = None THEN "" ELSE "," \o Dec(Get(count))

\* the hunk header "@@ -a[,b] +c[,d] @@"
HeaderLine(a, b, c, d) ==
    "@@ -" \o Dec(a) \o CountText(b) \o " +" \o Dec(c) \o CountText(d) \o " @@"

Counts == {None} \cup {Some(n) : n \in 0..MaxCount}

\* a file with one hunk header, for every header with starts up to MaxStart
\* and counts omitted or up to MaxCount; and the inputs above that take the
\* other branches
HeaderInputs ==
    {Join(<<"--- a/x", HeaderLine(a, b, c, d)>>) :
        a \in 0..MaxStart, b \in Counts, c \in 0..MaxStart, d \in Counts}
        \cup RepeatInputs

\* the lines of a hunk body, with the lines that are neither body nor header
BodyAlphabet == { "+p", "-q", " r", "", "\\ n", "@@ -x +1 @@" }

\* one hunk of at most MaxBody lines, alone and in a file; and the inputs
\* above that take the other branches
BodyInputs ==
    {Join(pre \o <<"@@ -2 +0 @@">> \o ls) :
        pre \in {<<>>, <<"--- a/x">>}, ls \in LineSeqs(BodyAlphabet, MaxBody)}
        \cup RepeatInputs

\* the lines that open a FileDiff or name it, with a hunk header and a body
\* line
MarkerAlphabet ==
    { "diff --git a/x b/y",
      "diff --git a/y b/",
      "new file mode 1",
      "--- a/x",
      "--- /dev/null",
      "+++ b/z",
      "+++ /dev/null",
      "@@ -2 +0 @@",
      "+p" }

\* every text of at most MaxMarkers of these lines; and the inputs above that
\* take the other branches
MarkerInputs ==
    {Join(ls) : ls \in LineSeqs(MarkerAlphabet, MaxMarkers)} \cup RepeatInputs

\* one file with one hunk of at most two body lines
FileHunkInputs ==
    {Join(<<"diff --git a/x b/y", hh>> \o ls) :
        hh \in {"@@ -2 +0 @@", "@@ -1,2 +3,0 @@ h"},
        ls \in {<<>>} \cup LineSeqs(BodyAlphabet, 2)}

\* the texts above, each as it is and with a newline at its end
DerivedInputs ==
    LET texts == FileHunkInputs \cup RepeatInputs
    IN  texts \cup {t \o "\n" : t \in texts}

InputsOf(c) ==
    CASE c = "once" -> Inputs
      [] c = "derived" -> DerivedInputs
      [] c = "scan" -> FileHunkInputs \cup RepeatInputs
      [] c = "markers" -> MarkerInputs
      [] c = "repeat" -> RepeatInputs
      [] c = "headers" -> HeaderInputs
      [] c = "body" -> BodyInputs
      [] c = "files" -> RepeatInputs
BudgetOf(c) ==
    CASE c = "repeat" -> MaxCalls
      [] c = "files" -> 2
      [] c = "derived" -> 2
      [] OTHER -> 1

(***************************************************************************)
(* DiffParser.parse                                                        *)
(***************************************************************************)
\* parse with current_hunk kept from the call before, as a field would be
parse_keepsHunk(d) ==
    /\ pc \in {"idle", "done"}
    /\ calls < BudgetOf(client)
    /\ calls' = calls + 1
    /\ diff' = d
    /\ lines' = Split(d)
    /\ file_diffs' = <<>>
    /\ current_file' = None
    /\ old_line' = 0
    /\ new_line' = 0
    /\ i' = 0
    /\ pc' = "loop"
    /\ UNCHANGED <<client, history, current_hunk>>

\* lines 105-112: the call binds its argument and initialises its locals
parse(d) ==
    /\ pc \in {"idle", "done"}
    /\ calls < BudgetOf(client)
    /\ calls' = calls + 1
    /\ diff' = d
    /\ lines' = Split(d)
    /\ file_diffs' = <<>>
    /\ current_file' = None
    /\ current_hunk' = None
    /\ old_line' = 0
    /\ new_line' = 0
    /\ i' = 0
    /\ pc' = "loop"
    /\ UNCHANGED <<client, history>>

\* a caller calls parse on one of its inputs
Call ==
    /\ pc \in {"idle", "done"}
    /\ calls < BudgetOf(client)
    /\ \E d \in InputsOf(client) :
          /\ parse(d)
          /\ entry' = [fn |-> "parse", file |-> None]
          /\ UNCHANGED derived

\* parse_file with f.readline() for f.read()
parse_file_readsLine(file) ==
    IF file = None
    THEN /\ pc \in {"idle", "done"}
         /\ calls < BudgetOf(client)
         /\ calls' = calls + 1
         /\ pc' = "OSError"
         /\ UNCHANGED <<client, history, diff, lines, i, file_diffs,
                        current_file, current_hunk, old_line, new_line>>
    ELSE parse(Split(Get(file))[1])

\* lines 219-221, for the file that file_path names: None when open() fails,
\* Some(text) when f.read() returns text
parse_file(file) ==
    IF file = None
    THEN /\ pc \in {"idle", "done"}
         /\ calls < BudgetOf(client)
         /\ calls' = calls + 1
         /\ pc' = "OSError"
         /\ UNCHANGED <<client, history, diff, lines, i, file_diffs,
                        current_file, current_hunk, old_line, new_line>>
    ELSE parse(Get(file))

\* a caller calls parse_file on a path; the path names no readable file, or
\* a file that holds one of the caller's texts
CallFile ==
    /\ pc \in {"idle", "done"}
    /\ calls < BudgetOf(client)
    /\ \E file \in {None} \cup {Some(d) : d \in InputsOf(client)} :
          /\ parse_file(file)
          /\ entry' = [fn |-> "parse_file", file |-> file]
          /\ UNCHANGED derived

\* the `@@` header line that gives h's ranges and header text
HunkHeaderOf(h) ==
    HeaderLine(h.old_start, Some(h.old_count), h.new_start, Some(h.new_count))
        \o (IF h.header = "" THEN "" ELSE " " \o h.header)

\* a caller renders a hunk of the last result with get_context and calls
\* parse on a diff made of a file header, the hunk's header and the rendering
CallRendered ==
    /\ pc = "done"
    /\ calls < BudgetOf(client)
    /\ derived = None
    /\ \E r \in 1..Len(file_diffs) :
          \E j \in 1..Len(file_diffs[r].hunks) :
              LET h == file_diffs[r].hunks[j]
              IN  /\ derived' = Some([fn |-> "get_context", arg |-> h,
                                      result |-> get_context(h)])
                  /\ parse(Join(<<"diff --git a/x b/y", HunkHeaderOf(h), get_context(h)>>))
                  /\ entry' = [fn |-> "parse", file |-> None]

\* line 113: the loop condition holds
InLoop == pc = "loop" /\ i < Len(lines)

\* line 114
Line == lines[i + 1]

file_match == FILE_HEADER_PATTERN(Line)
old_match  == OLD_FILE_PATTERN(Line)
new_match  == NEW_FILE_PATTERN(Line)
hunk_match == HUNK_HEADER_PATTERN(Line)

\* the tests of the if-chain that failed before a branch is reached
PastFileHeader  == file_match = None
PastNewFileMode == PastFileHeader /\ ~StartsWith(Line, "new file mode")
PastDeletedFileMode == PastNewFileMode /\ ~StartsWith(Line, "deleted file mode")
PastRename ==
    PastDeletedFileMode
        /\ ~(StartsWith(Line, "rename from") \/ StartsWith(Line, "rename to"))
PastOldFile == PastRename /\ old_match = None
PastNewFile == PastOldFile /\ new_match = None
PastHunkHeader == PastNewFile /\ hunk_match = None

\* i += 1; continue
NextLine ==
    i' = i + 1 /\ UNCHANGED <<client, calls, history, entry, pc, diff, lines, derived>>

\* FileHeader with the finished file put in front of the result
FileHeader_prepends ==
    /\ InLoop
    /\ file_match # None
    /\ file_diffs' = IF current_file # None
                     THEN <<Get(current_file)>> \o file_diffs
                     ELSE file_diffs
    /\ current_file' = Some(FileDiff(Get(file_match).g2, Some(Get(file_match).g1)))
    /\ current_hunk' = None
    /\ NextLine
    /\ UNCHANGED <<old_line, new_line>>

\* lines 116-126
FileHeader ==
    /\ InLoop
    /\ file_match # None
    /\ file_diffs' = IF current_file # None
                     THEN Append(file_diffs, Get(current_file))
                     ELSE file_diffs
    /\ current_file' = Some(FileDiff(Get(file_match).g2, Some(Get(file_match).g1)))
    /\ current_hunk' = None
    /\ NextLine
    /\ UNCHANGED <<old_line, new_line>>

\* NewFileMode that opens a FileDiff when none is open
NewFileMode_opensFile ==
    /\ InLoop
    /\ PastFileHeader
    /\ StartsWith(Line, "new file mode")
    /\ current_file' = IF current_file # None
                       THEN Some([Get(current_file) EXCEPT !.is_new_file = TRUE])
                       ELSE Some([FileDiff("", None) EXCEPT !.is_new_file = TRUE])
    /\ NextLine
    /\ UNCHANGED <<file_diffs, current_hunk, old_line, new_line>>

\* lines 128-132
NewFileMode ==
    /\ InLoop
    /\ PastFileHeader
    /\ StartsWith(Line, "new file mode")
    /\ current_file' = IF current_file # None
                       THEN Some([Get(current_file) EXCEPT !.is_new_file = TRUE])
                       ELSE current_file
    /\ NextLine
    /\ UNCHANGED <<file_diffs, current_hunk, old_line, new_line>>

\* DeletedFileMode that sets the flag of the branch above it
DeletedFileMode_setsNew ==
    /\ InLoop
    /\ PastNewFileMode
    /\ StartsWith(Line, "deleted file mode")
    /\ current_file' = IF current_file # None
                       THEN Some([Get(current_file) EXCEPT !.is_new_file = TRUE])
                       ELSE current_file
    /\ NextLine
    /\ UNCHANGED <<file_diffs, current_hunk, old_line, new_line>>

\* lines 134-138
DeletedFileMode ==
    /\ InLoop
    /\ PastNewFileMode
    /\ StartsWith(Line, "deleted file mode")
    /\ current_file' = IF current_file # None
                       THEN Some([Get(current_file) EXCEPT !.is_deleted_file = TRUE])
                       ELSE current_file
    /\ NextLine
    /\ UNCHANGED <<file_diffs, current_hunk, old_line, new_line>>

\* lines 140-144
Rename ==
    /\ InLoop
    /\ PastDeletedFileMode
    /\ StartsWith(Line, "rename from") \/ StartsWith(Line, "rename to")
    /\ current_file' = IF current_file # None
                       THEN Some([Get(current_file) EXCEPT !.is_renamed = TRUE])
                       ELSE current_file
    /\ NextLine
    /\ UNCHANGED <<file_diffs, current_hunk, old_line, new_line>>

\* OldFile that takes the path of the marker for the path of the file
OldFile_setsPath ==
    /\ InLoop
    /\ PastRename
    /\ old_match # None
    /\ current_file' = IF current_file = None
                       THEN Some(FileDiff(Get(old_match).g1, None))
                       ELSE Some([Get(current_file) EXCEPT !.file_path = Get(old_match).g1])
    /\ NextLine
    /\ UNCHANGED <<file_diffs, current_hunk, old_line, new_line>>

\* OldFile that also ends the open hunk
OldFile_closesHunk ==
    /\ InLoop
    /\ PastRename
    /\ old_match # None
    /\ current_file' = IF current_file = None
                       THEN Some(FileDiff("", None))
                       ELSE current_file
    /\ current_hunk' = None
    /\ NextLine
    /\ UNCHANGED <<file_diffs, old_line, new_line>>

\* lines 146-151
OldFile ==
    /\ InLoop
    /\ PastRename
    /\ old_match # None
    /\ current_file' = IF current_file = None
                       THEN Some(FileDiff("", None))
                       ELSE current_file
    /\ NextLine
    /\ UNCHANGED <<file_diffs, current_hunk, old_line, new_line>>

\* NewFile without the test of line 155: the path is set again
NewFile_overwrites ==
    /\ InLoop
    /\ PastOldFile
    /\ new_match # None
    /\ current_file' = IF current_file # None /\ Get(new_match).g1 # "/dev/null"
                       THEN Some([Get(current_file) EXCEPT !.file_path = Get(new_match).g1])
                       ELSE current_file
    /\ NextLine
    /\ UNCHANGED <<file_diffs, current_hunk, old_line, new_line>>

\* lines 153-160
NewFile ==
    /\ InLoop
    /\ PastOldFile
    /\ new_match # None
    /\ current_file' =
           IF current_file # None /\ Get(current_file).file_path = ""
                                  /\ Get(new_match).g1 # "/dev/null"
           THEN Some([Get(current_file) EXCEPT !.file_path = Get(new_match).g1])
           ELSE current_file
    /\ NextLine
    /\ UNCHANGED <<file_diffs, current_hunk, old_line, new_line>>

\* int(g) or 1: a written 0 is taken for an omitted count
CountOf_zeroIsOmitted(g) ==
    IF g = None \/ ToInt(Get(g)) = 0 THEN 1 ELSE ToInt(Get(g))

\* int(g or 1), lines 168 and 170
CountOf(g) == IF g = None \/ Get(g) = "" THEN 1 ELSE ToInt(Get(g))

\* one of the int() calls of lines 167-170 raises ValueError
IntRaises(m) ==
    ~ /\ IntOk(m.g1)
      /\ m.g2 = None \/ Get(m.g2) = "" \/ IntOk(Get(m.g2))
      /\ IntOk(m.g3)
      /\ m.g4 = None \/ Get(m.g4) = "" \/ IntOk(Get(m.g4))

\* the exception leaves parse: no result is returned
Raise(exception) ==
    /\ pc' = exception
    /\ UNCHANGED <<client, calls, history, entry, diff, lines, i, file_diffs,
                   current_hunk, old_line, new_line, derived>>

\* lines 167-178
HunkOf(m) == DiffHunk(ToInt(m.g1), CountOf(m.g2), ToInt(m.g3), CountOf(m.g4), Strip(m.g5))

\* current_file.hunks.append(current_hunk), lines 165 and 213
WithHunk(file, hunk) == [file EXCEPT !.hunks = Append(@, hunk)]

\* HunkHeader without line 165: the open hunk is replaced, not appended
HunkHeader_noAppend ==
    /\ InLoop
    /\ PastNewFile
    /\ hunk_match # None
    /\ IF IntRaises(Get(hunk_match))
       THEN Raise("ValueError") /\ UNCHANGED current_file
       ELSE /\ current_hunk' = Some(HunkOf(Get(hunk_match)))
            /\ old_line' = ToInt(Get(hunk_match).g1)
            /\ new_line' = ToInt(Get(hunk_match).g3)
            /\ NextLine
            /\ UNCHANGED <<file_diffs, current_file>>

\* HunkHeader that opens a FileDiff for its hunk when none is open
HunkHeader_opensFile ==
    /\ InLoop
    /\ PastNewFile
    /\ hunk_match # None
    /\ current_file' = IF current_file = None THEN Some(FileDiff("", None))
                       ELSE IF current_hunk # None
                       THEN Some(WithHunk(Get(current_file), Get(current_hunk)))
                       ELSE current_file
    /\ IF IntRaises(Get(hunk_match))
       THEN Raise("ValueError")
       ELSE /\ current_hunk' = Some(HunkOf(Get(hunk_match)))
            /\ old_line' = ToInt(Get(hunk_match).g1)
            /\ new_line' = ToInt(Get(hunk_match).g3)
            /\ NextLine
            /\ UNCHANGED file_diffs

\* lines 162-182
HunkHeader ==
    /\ InLoop
    /\ PastNewFile
    /\ \E m \in {hunk_match[k] : k \in 1..Len(hunk_match)} :
          /\ current_file' = IF current_hunk # None /\ current_file # None
                             THEN Some(WithHunk(Get(current_file), Get(current_hunk)))
                             ELSE current_file
          /\ IF IntRaises(m)
             THEN Raise("ValueError")
             ELSE /\ current_hunk' = Some(HunkOf(m))
                  /\ old_line' = ToInt(m.g1)
                  /\ new_line' = ToInt(m.g3)
                  /\ NextLine
                  /\ UNCHANGED file_diffs

\* current_hunk.lines.append(l)
WithLine(hunk, l) == [hunk EXCEPT !.lines = Append(@, l)]

IsAddition(line) == StartsWith(line, "+") /\ ~StartsWith(line, "+++")
IsDeletion(line) == StartsWith(line, "-") /\ ~StartsWith(line, "---")
IsContext(line)  == StartsWith(line, " ") \/ line = ""

\* Addition that keeps the marker in the content
Addition_keepsMarker ==
    /\ InLoop
    /\ PastHunkHeader
    /\ current_hunk # None
    /\ IsAddition(Line)
    /\ current_hunk' = Some(WithLine(Get(current_hunk),
                                     DiffLine(Line, "addition", None, Some(new_line))))
    /\ new_line' = new_line + 1
    /\ NextLine
    /\ UNCHANGED <<file_diffs, current_file, old_line>>

\* lines 185-191
Addition ==
    /\ InLoop
    /\ PastHunkHeader
    /\ current_hunk # None
    /\ IsAddition(Line)
    /\ current_hunk' = Some(WithLine(Get(current_hunk),
                                     DiffLine(From(Line, 1), "addition", None, Some(new_line))))
    /\ new_line' = new_line + 1
    /\ NextLine
    /\ UNCHANGED <<file_diffs, current_file, old_line>>

\* Deletion that stamps the new-file number as well
Deletion_stampsBoth ==
    /\ InLoop
    /\ PastHunkHeader
    /\ current_hunk # None
    /\ ~IsAddition(Line)
    /\ IsDeletion(Line)
    /\ current_hunk' = Some(WithLine(Get(current_hunk),
                                     DiffLine(From(Line, 1), "deletion",
                                              Some(old_line), Some(new_line))))
    /\ old_line' = old_line + 1
    /\ NextLine
    /\ UNCHANGED <<file_diffs, current_file, new_line>>

\* lines 192-198
Deletion ==
    /\ InLoop
    /\ PastHunkHeader
    /\ current_hunk # None
    /\ ~IsAddition(Line)
    /\ IsDeletion(Line)
    /\ current_hunk' = Some(WithLine(Get(current_hunk),
                                     DiffLine(From(Line, 1), "deletion", Some(old_line), None)))
    /\ old_line' = old_line + 1
    /\ NextLine
    /\ UNCHANGED <<file_diffs, current_file, new_line>>

\* Context without line 207: the old-file cursor does not advance
Context_keepsOldLine ==
    /\ InLoop
    /\ PastHunkHeader
    /\ current_hunk # None
    /\ ~IsAddition(Line)
    /\ ~IsDeletion(Line)
    /\ IsContext(Line)
    /\ LET content == IF StartsWith(Line, " ") THEN From(Line, 1) ELSE Line
       IN  current_hunk' = Some(WithLine(Get(current_hunk),
                                         DiffLine(content, "context", Some(old_line), Some(new_line))))
    /\ new_line' = new_line + 1
    /\ NextLine
    /\ UNCHANGED <<file_diffs, current_file, old_line>>

\* lines 199-208
Context ==
    /\ InLoop
    /\ PastHunkHeader
    /\ current_hunk # None
    /\ ~IsAddition(Line)
    /\ ~IsDeletion(Line)
    /\ IsContext(Line)
    /\ LET content == IF StartsWith(Line, " ") THEN From(Line, 1) ELSE Line
       IN  current_hunk' = Some(WithLine(Get(current_hunk),
                                         DiffLine(content, "context", Some(old_line), Some(new_line))))
    /\ old_line' = old_line + 1
    /\ new_line' = new_line + 1
    /\ NextLine
    /\ UNCHANGED <<file_diffs, current_file>>

\* Ignored that counts the skipped line on both sides of the open hunk
Ignored_countsLine ==
    /\ InLoop
    /\ PastHunkHeader
    /\ current_hunk = None \/ ~(IsAddition(Line) \/ IsDeletion(Line) \/ IsContext(Line))
    /\ old_line' = old_line + 1
    /\ new_line' = new_line + 1
    /\ NextLine
    /\ UNCHANGED <<file_diffs, current_file, current_hunk>>

\* Ignored that ends the open hunk, as a header does
Ignored_closesHunk ==
    /\ InLoop
    /\ PastHunkHeader
    /\ current_hunk = None \/ ~(IsAddition(Line) \/ IsDeletion(Line) \/ IsContext(Line))
    /\ current_hunk' = None
    /\ NextLine
    /\ UNCHANGED <<file_diffs, current_file, old_line, new_line>>

\* Ignored without line 210: the index stays
Ignored_stays ==
    /\ InLoop
    /\ PastHunkHeader
    /\ current_hunk = None \/ ~(IsAddition(Line) \/ IsDeletion(Line) \/ IsContext(Line))
    /\ UNCHANGED vars

\* lines 184 and 210: no hunk is open, or no branch of the body matches
Ignored ==
    /\ InLoop
    /\ PastHunkHeader
    /\ current_hunk = None \/ ~(IsAddition(Line) \/ IsDeletion(Line) \/ IsContext(Line))
    /\ NextLine
    /\ UNCHANGED <<file_diffs, current_file, current_hunk, old_line, new_line>>

\* Finish with line 213 run twice: the open hunk is appended two times
Finish_appendsTwice ==
    /\ pc = "loop"
    /\ i >= Len(lines)
    /\ LET file == IF current_hunk # None /\ current_file # None
                   THEN Some(WithHunk(WithHunk(Get(current_file), Get(current_hunk)),
                                      Get(current_hunk)))
                   ELSE current_file
           result == IF file # None THEN Append(file_diffs, Get(file)) ELSE file_diffs
       IN  /\ current_file' = file
           /\ file_diffs' = result
           /\ history' = Append(history, [entry |-> entry, diff |-> diff,
                                          result |-> result])
    /\ pc' = "done"
    /\ UNCHANGED <<client, calls, entry, diff, lines, i, current_hunk, old_line,
                   new_line, derived>>

\* Finish without line 213: the open hunk is not appended
Finish_dropsHunk ==
    /\ pc = "loop"
    /\ i >= Len(lines)
    /\ LET result == IF current_file # None
                     THEN Append(file_diffs, Get(current_file)) ELSE file_diffs
       IN  /\ file_diffs' = result
           /\ history' = Append(history, [entry |-> entry, diff |-> diff,
                                          result |-> result])
    /\ pc' = "done"
    /\ UNCHANGED <<client, calls, entry, diff, lines, i, current_file, current_hunk,
                   old_line, new_line, derived>>

\* lines 212-217: the loop is over; close the hunk and the file and return
Finish ==
    /\ pc = "loop"
    /\ i >= Len(lines)
    /\ LET file == IF current_hunk # None /\ current_file # None
                   THEN Some(WithHunk(Get(current_file), Get(current_hunk)))
                   ELSE current_file
           result == IF file # None THEN Append(file_diffs, Get(file)) ELSE file_diffs
       IN  /\ current_file' = file
           /\ file_diffs' = result
           /\ history' = Append(history, [entry |-> entry, diff |-> diff,
                                          result |-> result])
    /\ pc' = "done"
    /\ UNCHANGED <<client, calls, entry, diff, lines, i, current_hunk, old_line,
                   new_line, derived>>

(***************************************************************************)
(* code_utils: merge_ranges and extract_code_context.  A range is the      *)
(* tuple <<start, end>>.                                                   *)
(***************************************************************************)
max(a, b) == IF a >= b THEN a ELSE b
min(a, b) == IF a <= b THEN a ELSE b

RECURSIVE InsertByStart(_, _)
\* r put after the ranges that start at or before it (sorted is stable)
InsertByStart(r, sorted_ranges) ==
    IF sorted_ranges = <<>> THEN <<r>>
    ELSE IF sorted_ranges[1][1] <= r[1]
         THEN <<sorted_ranges[1]>> \o InsertByStart(r, Tail(sorted_ranges))
         ELSE <<r>> \o sorted_ranges

RECURSIVE sorted_by_start(_)
\* line 179: sorted(ranges, key=lambda x: x[0])
sorted_by_start(ranges) ==
    IF ranges = <<>> THEN <<>>
    ELSE InsertByStart(ranges[Len(ranges)],
                       sorted_by_start(SubSeq(ranges, 1, Len(ranges) - 1)))

RECURSIVE MergeInto_keepsEnd(_, _)
\* MergeInto with `end` for max(last_end, end) at line 184
MergeInto_keepsEnd(merged, rest) ==
    IF rest = <<>> THEN merged
    ELSE LET last_start == merged[Len(merged)][1]
             last_end == merged[Len(merged)][2]
             start == rest[1][1]
             end == rest[1][2]
         IN  IF start <= last_end
             THEN MergeInto_keepsEnd([merged EXCEPT ![Len(merged)] = <<last_start, end>>],
                                     Tail(rest))
             ELSE MergeInto_keepsEnd(Append(merged, <<start, end>>), Tail(rest))

RECURSIVE MergeInto(_, _)
\* lines 182-187: the loop over sorted_ranges[1:], merged being the list so far
MergeInto(merged, rest) ==
    IF rest = <<>> THEN merged
    ELSE LET last_start == merged[Len(merged)][1]
             last_end == merged[Len(merged)][2]
             start == rest[1][1]
             end == rest[1][2]
         IN  IF start <= last_end
             THEN MergeInto([merged EXCEPT ![Len(merged)] =
                                 <<last_start, max(last_end, end)>>], Tail(rest))
             ELSE MergeInto(Append(merged, <<start, end>>), Tail(rest))

\* lines 174-188
merge_ranges(ranges) ==
    IF ranges = <<>> THEN <<>>
    ELSE LET sorted_ranges == sorted_by_start(ranges)
         IN  MergeInto(<<sorted_ranges[1]>>, Tail(sorted_ranges))

\* lines 159-162: the range of each hunk in a file of n lines
relevant_ranges(n, hunks, context_lines) ==
    [k \in 1..Len(hunks) |->
        <<max(0, hunks[k].new_start - context_lines - 1),
          min(n, hunks[k].new_start + hunks[k].new_count + context_lines)>>]

\* lines[start:end] for 0 <= start and 0 <= end
Slice(ls, start, end) ==
    IF start >= min(end, Len(ls)) THEN <<>> ELSE SubSeq(ls, start + 1, min(end, Len(ls)))

\* line 168
Label(start, end) == "... (lines " \o Dec(start + 1) \o "-" \o Dec(end) \o ") ..."

RECURSIVE context_parts(_, _)
\* lines 166-169
context_parts(merged, ls) ==
    IF merged = <<>> THEN <<>>
    ELSE <<Label(merged[1][1], merged[1][2])>>
             \o Slice(ls, merged[1][1], merged[1][2])
             \o context_parts(Tail(merged), ls)

\* lines 151-171
extract_code_context(full_content, hunks, context_lines) ==
    LET ls == Split(full_content)
        merged == merge_ranges(relevant_ranges(Len(ls), hunks, context_lines))
    IN  Join(context_parts(merged, ls))

\* the lists of ranges a caller merges
RangeLists ==
    {<<>>} \cup UNION {[1..k -> (0..MaxCoord) \X (0..MaxCoord)] : k \in 1..MaxRanges}

\* the files and hunks a caller extracts context for: a file of up to
\* MaxFileLines lines, one or two hunks
FileContents == {""} \cup {Join([j \in 1..k |-> "l"]) : k \in 1..MaxFileLines}
HunkRanges ==
    {DiffHunk(0, 0, new_start, new_count, "") :
        new_start \in 0..MaxHunkStart, new_count \in 0..MaxHunkCount}
HunkLists == UNION {[1..k -> HunkRanges] : k \in 1..2}

\* a caller merges a list of ranges
CallMergeRanges ==
    /\ client = "utils"
    /\ derived = None
    /\ \E ranges \in RangeLists :
          derived' = Some([fn |-> "merge_ranges", arg |-> ranges,
                           result |-> merge_ranges(ranges)])
    /\ UNCHANGED <<client, calls, history, entry, pc, diff, lines, i, file_diffs,
                   current_file, current_hunk, old_line, new_line>>

\* a caller extracts the context of the hunks of a file
CallExtractCodeContext ==
    /\ client = "utils"
    /\ derived = None
    /\ \E full_content \in FileContents, hunks \in HunkLists,
           context_lines \in 0..MaxContext :
          derived' =
              Some([fn |-> "extract_code_context",
                    arg |-> [full_content |-> full_content, hunks |-> hunks,
                             context_lines |-> context_lines],
                    ranges |-> relevant_ranges(Len(Split(full_content)), hunks,
                                               context_lines),
                    result |-> extract_code_context(full_content, hunks, context_lines)])
    /\ UNCHANGED <<client, calls, history, entry, pc, diff, lines, i, file_diffs,
                   current_file, current_hunk, old_line, new_line>>

\* the state after DiffParser(): no call made yet
InitParser ==
    /\ calls = 0
    /\ history = <<>>
    /\ entry = [fn |-> "", file |-> None]
    /\ pc = "idle"
    /\ diff = ""
    /\ lines = <<>>
    /\ i = 0
    /\ file_diffs = <<>>
    /\ current_file = None
    /\ current_hunk = None
    /\ old_line = 0
    /\ new_line = 0
    /\ derived = None

Init == client = "once" /\ InitParser

InitRepeat == client = "repeat" /\ InitParser

Next ==
    \/ Call
    \/ FileHeader
    \/ NewFileMode
    \/ DeletedFileMode
    \/ Rename
    \/ OldFile
    \/ NewFile
    \/ HunkHeader
    \/ Addition
    \/ Deletion
    \/ Context
    \/ Ignored
    \/ Finish

InitHeaders == client = "headers" /\ InitParser

InitBody == client = "body" /\ InitParser

InitFiles == client = "files" /\ InitParser

InitMarkers == client = "markers" /\ InitParser

InitDerived == client = "derived" /\ InitParser

InitScan == client = "scan" /\ InitParser

InitUtils == client = "utils" /\ InitParser

\* the callers of the range utilities
NextUtils == CallMergeRanges \/ CallExtractCodeContext

\* lines 113-210: one iteration of the while loop, on whichever branch
Iterate ==
    \/ FileHeader
    \/ NewFileMode
    \/ DeletedFileMode
    \/ Rename
    \/ OldFile
    \/ NewFile
    \/ HunkHeader
    \/ Addition
    \/ Deletion
    \/ Context
    \/ Ignored

\* a caller that uses both entry points
NextFiles == Next \/ CallFile

\* a caller that also parses the rendering of a hunk it got
NextDerived == Next \/ CallRendered

\* one call of parse on any input
Spec == Init /\ [][Next]_vars

\* one call of parse on a file with one hunk header
SpecHeaders == InitHeaders /\ [][Next]_vars

\* up to MaxCalls calls of parse on one DiffParser
SpecRepeat == InitRepeat /\ [][Next]_vars

\* one call of parse on a file with one hunk
SpecBody == InitBody /\ [][Next]_vars

\* one call of parse on a text of file headers and markers
SpecMarkers == InitMarkers /\ [][Next]_vars

\* two calls on one DiffParser, each of parse or of parse_file
SpecFiles == InitFiles /\ [][NextFiles]_vars

\* two calls of parse on one DiffParser: on a text and on the text with a
\* newline at its end, or on a text and on the rendering of one of its hunks
SpecDerived == InitDerived /\ [][NextDerived]_vars

\* one call of parse that runs on: once called, the loop takes its next
\* iteration and the function returns (no step of parse waits for anything)
SpecScan == InitScan /\ [][Next]_vars /\ WF_vars(Iterate \/ Finish)

\* one call of merge_ranges or of extract_code_context
SpecUtils == InitUtils /\ [][NextUtils]_vars

TypeOK ==
    /\ pc \in {"idle", "loop", "done", "ValueError", "OSError"}
    /\ entry.fn \in {"", "parse", "parse_file"}
    /\ i \in 0..Len(lines)
    /\ Len(current_file) <= 1
    /\ Len(current_hunk) <= 1

(***************************************************************************)
(* The input as the properties read it: which lines open a FileDiff, and  *)
(* the file sections they delimit.                                         *)
(***************************************************************************)
Last(q) == q[Len(q)]

\* the r-th smallest element of a set of integers
Nth(S, r) == CHOOSE x \in S : Cardinality({y \in S : y < x}) = r - 1

EndsWith(s, p) == Len(s) >= Len(p) /\ SubSeq(s, Len(s) - Len(p) + 1, Len(s)) = p

\* l reads "diff --git a/<old> b/<new>"
IsDiffGitLine(l) ==
    /\ StartsWith(l, "diff --git a/")
    /\ \E k \in 14..Len(l) : At(l, k, " b/")

FileHeaderIdx == {k \in 1..Len(lines) : IsDiffGitLine(lines[k])}
OldMarkerIdx  == {k \in 1..Len(lines) : StartsWith(lines[k], "--- ")}
NewMarkerIdx  == {k \in 1..Len(lines) : StartsWith(lines[k], "+++ ")}
HunkHeaderIdx == {k \in 1..Len(lines) : HUNK_HEADER_PATTERN(lines[k]) # None}
NewFileModeIdx == {k \in 1..Len(lines) : StartsWith(lines[k], "new file mode")}
DeletedFileModeIdx == {k \in 1..Len(lines) : StartsWith(lines[k], "deleted file mode")}
RenameIdx ==
    {k \in 1..Len(lines) :
        StartsWith(lines[k], "rename from") \/ StartsWith(lines[k], "rename to")}

\* the lines of one of the seven header forms
HeaderFormIdx ==
    FileHeaderIdx \cup NewFileModeIdx \cup DeletedFileModeIdx \cup RenameIdx
        \cup OldMarkerIdx \cup NewMarkerIdx \cup HunkHeaderIdx

\* the lines that open a FileDiff: every diff --git line, and an old-file
\* marker that no diff --git line and no old-file marker precedes
OpenerIdx ==
    FileHeaderIdx \cup
        {k \in OldMarkerIdx : \A j \in FileHeaderIdx \cup OldMarkerIdx : j >= k}

NumSections == Cardinality(OpenerIdx)
SectionStart(r) == Nth(OpenerIdx, r)
SectionEnd(r) == IF r < NumSections THEN Nth(OpenerIdx, r + 1) - 1 ELSE Len(lines)
SectionIdx(r) == SectionStart(r)..SectionEnd(r)

\* the hunk headers of section r
SectionHunkIdx(r) == HunkHeaderIdx \cap SectionIdx(r)
LastHunkIdx(r) == Nth(SectionHunkIdx(r), Cardinality(SectionHunkIdx(r)))

\* hunk h was opened by the header at line k
OpenedBy(h, k) == [h EXCEPT !.lines = <<>>] = HunkOf(Get(HUNK_HEADER_PATTERN(lines[k])))

Returned == pc = "done"

\* section r of the input has a hunk header, and the FileDiff of the section
\* ends with the hunk of the last one
KeepsLastHunk(r) ==
    SectionHunkIdx(r) # {} =>
        /\ r <= Len(file_diffs)
        /\ file_diffs[r].hunks # <<>>
        /\ OpenedBy(Last(file_diffs[r].hunks), LastHunkIdx(r))

(***************************************************************************)
(* C1: every file section's hunks in the result contain the hunk opened   *)
(* by the section's last @@ header, also when another diff --git header    *)
(* follows the section.                                                    *)
(***************************************************************************)
C1_EverySectionKeepsLastHunk ==
    Returned => \A r \in 1..NumSections : KeepsLastHunk(r)

\* FileDiff f carries the paths of the diff --git line l
HasOldPathOf(f, l) ==
    f.old_path # None /\ StartsWith(l, "diff --git a/" \o Get(f.old_path) \o " b/")
HasPathsOf(f, l) ==
    f.old_path # None /\ l = "diff --git a/" \o Get(f.old_path) \o " b/" \o f.file_path

FirstHeaderIsDiffGit ==
    HeaderFormIdx # {} /\ Nth(HeaderFormIdx, 1) \in FileHeaderIdx

(***************************************************************************)
(* C2 as stated: when the first recognized header is a diff --git line,   *)
(* the result has one FileDiff per diff --git line, in textual order, the  *)
(* k-th with the second and first path group of the k-th diff --git line   *)
(* as filePath and oldPath.                                                *)
(***************************************************************************)
C2_OneFileDiffPerHeaderWithItsPaths ==
    (Returned /\ FirstHeaderIsDiffGit) =>
        /\ Len(file_diffs) = Cardinality(FileHeaderIdx)
        /\ \A k \in 1..Len(file_diffs) :
               HasPathsOf(file_diffs[k], lines[Nth(FileHeaderIdx, k)])

(***************************************************************************)
(* C2 amended: as C2, but the filePath is the second path group only when  *)
(* that group is not empty (an empty group is an unset path, which a       *)
(* later +++ line may fill); the oldPath is always the first path group.   *)
(***************************************************************************)
C2_OneFileDiffPerHeader ==
    (Returned /\ FirstHeaderIsDiffGit) =>
        /\ Len(file_diffs) = Cardinality(FileHeaderIdx)
        /\ \A k \in 1..Len(file_diffs) :
               LET l == lines[Nth(FileHeaderIdx, k)]
               IN  IF EndsWith(l, " b/")
                   THEN HasOldPathOf(file_diffs[k], l)
                   ELSE HasPathsOf(file_diffs[k], l)

C2_Witness ==
    /\ Returned
    /\ FirstHeaderIsDiffGit
    /\ Len(file_diffs) = 3
    /\ file_diffs[1].file_path = "y"
    /\ file_diffs[2].old_path = Some("y")
    /\ file_diffs[3].old_path = Some("x")

(***************************************************************************)
(* C3: at end of input the last FileDiff opened is in the result (it is    *)
(* the last element), and its last hunk is the hunk of the last @@ header  *)
(* met while it was the current file.                                      *)
(***************************************************************************)
C3_EndOfInputClosesHunkAndFile ==
    (Returned /\ NumSections > 0) =>
        /\ file_diffs # <<>>
        /\ LET f == Last(file_diffs)
               l == lines[SectionStart(NumSections)]
           IN  /\ IF IsDiffGitLine(l) THEN HasOldPathOf(f, l) ELSE f.old_path = None
               /\ SectionHunkIdx(NumSections) # {} =>
                      /\ f.hunks # <<>>
                      /\ OpenedBy(Last(f.hunks), LastHunkIdx(NumSections))

C3_Witness ==
    /\ Returned
    /\ NumSections = 2
    /\ Cardinality(SectionHunkIdx(2)) = 2
    /\ Len(Last(file_diffs).hunks) = 2
    /\ Last(file_diffs).hunks[1].new_start # Last(file_diffs).hunks[2].new_start
    /\ Last(Last(file_diffs).hunks).lines # <<>>

\* the text a DiffLine was read from: its marker followed by its content
\* (an empty line is read as a context line too)
Marker(line_type) ==
    CASE line_type = "addition" -> "+"
      [] line_type = "deletion" -> "-"
      [] line_type = "context"  -> " "

ReadFrom(dl, l) ==
    \/ l = Marker(dl.line_type) \o dl.content
    \/ dl.line_type = "context" /\ dl.content = "" /\ l = ""

RECURSIVE InOrderWithin(_, _, _)
\* the DiffLines dls were read, in order, from lines among lines[lo..hi]
InOrderWithin(dls, lo, hi) ==
    IF dls = <<>> THEN TRUE
    ELSE IF lo > hi THEN FALSE
    ELSE IF ReadFrom(Head(dls), lines[lo]) THEN InOrderWithin(Tail(dls), lo + 1, hi)
    ELSE InOrderWithin(dls, lo + 1, hi)

\* the line before the first hunk header after line k (the last line if none)
HunkEnd(k) ==
    LET later == {j \in HunkHeaderIdx : j > k}
    IN  IF later = {} THEN Len(lines) ELSE Nth(later, 1) - 1

\* the hunks of f, in order, were opened by hunk headers in textual order and
\* hold only lines between their header and the next hunk header
HunksInTextualOrder(f) ==
    \E a \in [1..Len(f.hunks) -> HunkHeaderIdx] :
        /\ \A j \in 1..(Len(f.hunks) - 1) : a[j] < a[j + 1]
        /\ \A j \in 1..Len(f.hunks) :
               /\ OpenedBy(f.hunks[j], a[j])
               /\ InOrderWithin(f.hunks[j].lines, a[j] + 1, HunkEnd(a[j]))

\* a hunk header met while a file is open appends the open hunk, if any, to
\* the file, and opens a hunk without lines
HeaderClosesOpenHunk ==
    (InLoop /\ (i + 1) \in HunkHeaderIdx /\ current_file # None) =>
        /\ current_file' # None
        /\ Get(current_file') =
               [Get(current_file) EXCEPT
                   !.hunks = IF current_hunk # None
                             THEN Append(@, Get(current_hunk)) ELSE @]
        /\ current_hunk' # None
        /\ Get(current_hunk').lines = <<>>

(***************************************************************************)
(* C4: within a FileDiff every @@ header closes the open hunk and appends  *)
(* it to the file before opening a new one; the file's hunks are in the    *)
(* textual order of their headers and a hunk's lines are body lines        *)
(* between its header and the next hunk header.                            *)
(***************************************************************************)
C4_HunkHeaderClosesPreviousHunk ==
    /\ [][HeaderClosesOpenHunk]_vars
    /\ [](Returned => \A k \in 1..Len(file_diffs) : HunksInTextualOrder(file_diffs[k]))

C4_Witness ==
    /\ Returned
    /\ \E k \in 1..Len(file_diffs) :
           LET hs == file_diffs[k].hunks
           IN  /\ Len(hs) = 2
               /\ hs[1].old_start # hs[2].old_start
               /\ hs[1].lines # <<>>
               /\ hs[2].lines # <<>>
               /\ hs[1].lines # hs[2].lines

\* the hunks of a sequence of FileDiffs
HunksOf(fs) == UNION {{fs[k].hunks[j] : j \in 1..Len(fs[k].hunks)} : k \in 1..Len(fs)}

\* every hunk parse holds: in the result, in the current file, or still open
HunksInState ==
    HunksOf(file_diffs) \cup HunksOf(current_file)
        \cup {current_hunk[k] : k \in 1..Len(current_hunk)}

OnNewSide(dl) == dl.line_type \in {"context", "addition"}
OnOldSide(dl) == dl.line_type \in {"context", "deletion"}
NewSide(h) == SelectSeq(h.lines, OnNewSide)
OldSide(h) == SelectSeq(h.lines, OnOldSide)

(***************************************************************************)
(* C5: in every hunk the k-th (from 0) context-or-addition line has        *)
(* newLineNumber = newStart + k and the k-th context-or-deletion line has  *)
(* oldLineNumber = oldStart + k.                                           *)
(***************************************************************************)
C5_LineNumbersCountFromStart ==
    \A h \in HunksInState :
        /\ \A k \in 1..Len(NewSide(h)) :
               NewSide(h)[k].new_line_number = Some(h.new_start + k - 1)
        /\ \A k \in 1..Len(OldSide(h)) :
               OldSide(h)[k].old_line_number = Some(h.old_start + k - 1)

C5_Witness ==
    /\ Returned
    /\ \E h \in HunksOf(file_diffs) :
           /\ Len(NewSide(h)) >= 2
           /\ Len(OldSide(h)) >= 2
           /\ \E k \in 1..Len(h.lines) : h.lines[k].line_type = "addition"
           /\ \E k \in 1..Len(h.lines) : h.lines[k].line_type = "deletion"
           /\ h.new_start # h.old_start

(***************************************************************************)
(* C6: an addition has a newLineNumber and no oldLineNumber, a deletion    *)
(* an oldLineNumber and no newLineNumber, a context line has both.         *)
(***************************************************************************)
C6_NumberPresence ==
    \A h \in HunksInState : \A k \in 1..Len(h.lines) :
        LET dl == h.lines[k]
        IN  /\ dl.line_type \in {"addition", "deletion", "context"}
            /\ dl.line_type = "addition" =>
                   dl.new_line_number # None /\ dl.old_line_number = None
            /\ dl.line_type = "deletion" =>
                   dl.old_line_number # None /\ dl.new_line_number = None
            /\ dl.line_type = "context" =>
                   dl.old_line_number # None /\ dl.new_line_number # None

C6_Witness ==
    /\ Returned
    /\ \E h \in HunksOf(file_diffs) :
           {h.lines[k].line_type : k \in 1..Len(h.lines)} =
               {"addition", "deletion", "context"}

\* the step appends one DiffLine of type t to the open hunk and changes
\* nothing else of it
AppendsLine(t) ==
    /\ current_hunk' # None
    /\ Len(Get(current_hunk').lines) = Len(Get(current_hunk).lines) + 1
    /\ [Get(current_hunk') EXCEPT !.lines = SubSeq(@, 1, Len(@) - 1)] = Get(current_hunk)
    /\ Last(Get(current_hunk').lines).line_type = t

AppendedContent == Last(Get(current_hunk').lines).content

\* a hunk is open and the line to read has none of the header forms
AtBodyLine == InLoop /\ current_hunk # None /\ (i + 1) \notin HeaderFormIdx

BodyLineClassified ==
    AtBodyLine =>
        /\ (Char(Line, 1) = "+" /\ ~StartsWith(Line, "+++")) =>
               AppendsLine("addition") /\ Line = "+" \o AppendedContent
        /\ (Char(Line, 1) = "-" /\ ~StartsWith(Line, "---")) =>
               AppendsLine("deletion") /\ Line = "-" \o AppendedContent
        /\ Char(Line, 1) = " " =>
               AppendsLine("context") /\ Line = " " \o AppendedContent
        /\ Line = "" =>
               AppendsLine("context") /\ AppendedContent = ""

(***************************************************************************)
(* C7: while a hunk is open a body line is appended to it according to     *)
(* its first character: + (not +++) an addition and - (not ---) a deletion *)
(* with the line minus its first character as content, a space or an empty *)
(* line a context line with the line minus one leading space as content.   *)
(***************************************************************************)
C7_BodyLineClassifiedByFirstChar == [][BodyLineClassified]_vars

C7_Witness ==
    /\ current_hunk # None
    /\ Len(Get(current_hunk).lines) = 4
    /\ LET ls == Get(current_hunk).lines
       IN  /\ {ls[k].line_type : k \in 1..4} = {"addition", "deletion", "context"}
           /\ \E k \in 1..4 : ls[k].line_type = "context" /\ ls[k].content = "" /\ lines[k + 1] = ""
           /\ \E k \in 1..4 : ls[k].line_type = "context" /\ ls[k].content = "r"
           /\ \E k \in 1..4 : ls[k].line_type = "addition" /\ ls[k].content = "p"

\* the ways a count is written in a header: ",<count>", or nothing for 1
CountTexts(count) ==
    {"," \o Dec(count)} \cup (IF count = 1 THEN {""} ELSE {})

\* the header l reads "@@ -a[,b] +c[,d] @@" with a, b or 1, c, d or 1 the
\* fields of hunk h
HeaderReads(l, h) ==
    \E b \in CountTexts(h.old_count), d \in CountTexts(h.new_count) :
        StartsWith(l, "@@ -" \o Dec(h.old_start) \o b \o " +" \o Dec(h.new_start) \o d \o " @@")

\* the line just read is a hunk header
HunkHeaderRead == pc = "loop" /\ i \in HunkHeaderIdx

(***************************************************************************)
(* C8: the hunk of header "@@ -a[,b] +c[,d] @@" has oldStart = a,          *)
(* newStart = c, oldCount = b when written (0 included) and 1 when         *)
(* omitted, newCount = d when written (0 included) and 1 when omitted.     *)
(***************************************************************************)
C8_HunkFieldsFromHeader ==
    HunkHeaderRead =>
        /\ current_hunk # None
        /\ HeaderReads(lines[i], Get(current_hunk))
        /\ old_line = Get(current_hunk).old_start
        /\ new_line = Get(current_hunk).new_start

C8_Witness ==
    /\ HunkHeaderRead
    /\ lines[i] = "@@ -10,0 +11 @@"
    /\ Get(current_hunk).old_start = 10
    /\ Get(current_hunk).old_count = 0
    /\ Get(current_hunk).new_count = 1

(***************************************************************************)
(* C9: two calls of parse on the same text return equal results, also      *)
(* with calls on other texts in between, and a call starts with no file,   *)
(* hunk or cursor state of an earlier call.                                *)
(***************************************************************************)
C9_ParseIsAFunctionOfItsInput ==
    /\ \A a, b \in 1..Len(history) :
           history[a].diff = history[b].diff => history[a].result = history[b].result
    /\ (pc = "loop" /\ i = 0) =>
           /\ file_diffs = <<>>
           /\ current_file = None
           /\ current_hunk = None
           /\ old_line = 0
           /\ new_line = 0

C9_Witness ==
    /\ Len(history) = 3
    /\ history[1].diff = history[3].diff
    /\ history[2].diff # history[1].diff
    /\ history[2].result # <<>>
    /\ HunksOf(history[3].result) # {}
    /\ history[3].result # history[2].result

(***************************************************************************)
(* C10: a FileDiff of the result has isNewFile, isDeletedFile, isRenamed   *)
(* exactly when a "new file mode", "deleted file mode", "rename from" or   *)
(* "rename to" line lies in its section of the input.                      *)
(***************************************************************************)
C10_FlagsFromHeaderMarkers ==
    Returned =>
        /\ Len(file_diffs) = NumSections
        /\ \A r \in 1..NumSections :
               /\ file_diffs[r].is_new_file <=> (NewFileModeIdx \cap SectionIdx(r) # {})
               /\ file_diffs[r].is_deleted_file <=> (DeletedFileModeIdx \cap SectionIdx(r) # {})
               /\ file_diffs[r].is_renamed <=> (RenameIdx \cap SectionIdx(r) # {})

C10_Witness ==
    /\ Returned
    /\ Len(file_diffs) = 2
    /\ file_diffs[1].is_new_file
    /\ ~file_diffs[2].is_new_file
    /\ ~file_diffs[1].is_deleted_file
    /\ ~file_diffs[1].is_renamed

\* the line being read is met while no FileDiff is open
NoFileOpen == InLoop /\ current_file = None

\* the step leaves every local of parse but the loop index as it was
OnlyNextLine ==
    /\ pc' = "loop"
    /\ i' = i + 1
    /\ UNCHANGED <<file_diffs, current_file, current_hunk, old_line, new_line>>

(***************************************************************************)
(* C11 as stated: when a "new file mode" line is met while no FileDiff is  *)
(* open (no line that opens one comes before it), a FileDiff is created    *)
(* with isNewFile set, and the result has a FileDiff with isNewFile set.   *)
(***************************************************************************)
C11_NewFileModeOpensFileOnDemand ==
    (Returned /\ NewFileModeIdx # {} /\ \A k \in OpenerIdx : Nth(NewFileModeIdx, 1) < k)
        => \E r \in 1..Len(file_diffs) : file_diffs[r].is_new_file

(***************************************************************************)
(* C11 amended: a "new file mode" line met while no FileDiff is open       *)
(* opens none and changes nothing; the result has as many FileDiffs as the *)
(* input has lines that open one, and isNewFile is set on a FileDiff only  *)
(* by a "new file mode" line read while that FileDiff is open.             *)
(***************************************************************************)
C11_NewFileModeNeedsAnOpenFile ==
    /\ [][(NoFileOpen /\ StartsWith(lines[i + 1], "new file mode")) => OnlyNextLine]_vars
    /\ [][(InLoop /\ current_file' # None /\ Get(current_file').is_new_file) =>
              /\ current_file # None
              /\ Get(current_file).is_new_file
                     \/ StartsWith(lines[i + 1], "new file mode")]_vars
    /\ [](Returned => Len(file_diffs) = NumSections)

C11_Witness ==
    /\ Returned
    /\ 1 \in NewFileModeIdx
    /\ Len(file_diffs) = 1
    /\ ~file_diffs[1].is_new_file

\* the path a "+++ " line carries: the text after "+++ ", less a leading "b/"
NewMarkerPath(l) == IF StartsWith(l, "+++ b/") THEN From(l, 6) ELSE From(l, 4)

\* the diff --git line l ends with the second path p
EndsWithPath(l, p) == IsDiffGitLine(l) /\ EndsWith(l, " b/" \o p)

(***************************************************************************)
(* C12: a "+++ <path>" line sets the filePath of the open FileDiff to      *)
(* <path> exactly when the filePath is still empty and <path> is not       *)
(* "/dev/null", and changes nothing else and opens no FileDiff; so a       *)
(* non-empty filePath is never replaced, and a FileDiff of the result has  *)
(* the filePath "/dev/null" only from a diff --git line that ends so.      *)
(***************************************************************************)
C12_NewMarkerSetsOnlyAnUnsetPath ==
    /\ [][(InLoop /\ StartsWith(lines[i + 1], "+++ ")) =>
              /\ current_file = None => current_file' = None
              /\ current_file # None =>
                     current_file' =
                         IF /\ Get(current_file).file_path = ""
                            /\ NewMarkerPath(lines[i + 1]) # "/dev/null"
                         THEN Some([Get(current_file) EXCEPT
                                        !.file_path = NewMarkerPath(lines[i + 1])])
                         ELSE current_file
              /\ UNCHANGED <<file_diffs, current_hunk, old_line, new_line>>]_vars
    /\ [](Returned =>
              \A r \in 1..Len(file_diffs) :
                  file_diffs[r].file_path = "/dev/null" =>
                      /\ r <= NumSections
                      /\ EndsWithPath(lines[SectionStart(r)], "/dev/null"))

C12_Witness ==
    /\ Returned
    /\ Len(lines) = 4
    /\ 1 \in OldMarkerIdx
    /\ lines[2] = "+++ /dev/null"
    /\ NewMarkerPath(lines[3]) = "z"
    /\ lines[4] = "+++ /dev/null"
    /\ Len(file_diffs) = 1
    /\ file_diffs[1].file_path = "z"
    /\ file_diffs[1].old_path = None

\* the input is a deleted-file diff without a diff --git line: "--- a/<path>"
\* followed by "+++ /dev/null"
HeaderlessDeletion ==
    /\ Len(lines) >= 2
    /\ StartsWith(lines[1], "--- a/")
    /\ lines[2] = "+++ /dev/null"

(***************************************************************************)
(* C13: for the input "--- a/<path>", "+++ /dev/null", ... the first       *)
(* FileDiff of the result has the filePath <path>, which is not empty.     *)
(***************************************************************************)
C13_DeletedFilePathFromOldMarker ==
    (Returned /\ HeaderlessDeletion) =>
        /\ file_diffs # <<>>
        /\ file_diffs[1].file_path # ""
        /\ lines[1] = "--- a/" \o file_diffs[1].file_path

\* a FileDiff as an old-file marker opens it: no path, no hunk, no flag
UnnamedFileDiff ==
    [file_path |-> "", old_path |-> None, hunks |-> <<>>,
     is_new_file |-> FALSE, is_deleted_file |-> FALSE, is_renamed |-> FALSE]

(***************************************************************************)
(* C14: a "--- <path>" line opens a FileDiff with an empty filePath, no    *)
(* oldPath, no flag and no hunk when no FileDiff is open; when one is open *)
(* the line leaves its filePath, oldPath, flags and hunks as they were.    *)
(* Either way the result list, the open hunk and the cursors are unchanged.*)
(***************************************************************************)
C14_OldMarkerOpensOrLeavesAlone ==
    [][(InLoop /\ StartsWith(lines[i + 1], "--- ")) =>
           /\ current_file = None => current_file' = Some(UnnamedFileDiff)
           /\ current_file # None => current_file' = current_file
           /\ UNCHANGED <<file_diffs, current_hunk, old_line, new_line>>]_vars

C14_Witness ==
    /\ pc = "loop"
    /\ i = 4
    /\ lines[4] = "--- /dev/null"
    /\ current_file # None
    /\ Get(current_file).file_path = "y"
    /\ Get(current_file).old_path = Some("x")
    /\ Get(current_file).is_new_file
    /\ current_hunk # None

\* the input has no line that opens a FileDiff
Headerless == FileHeaderIdx = {} /\ OldMarkerIdx = {}

(***************************************************************************)
(* C15: for the empty input and for every input without a diff --git line  *)
(* and without a "--- " marker, parse opens no FileDiff, raises nothing    *)
(* and returns the empty sequence, whatever hunk headers and body lines    *)
(* the input has.                                                          *)
(***************************************************************************)
C15_HeaderlessInputYieldsNothing ==
    \/ pc = "idle"
    \/ /\ pc \in {"loop", "done"}
       /\ current_file = None
       /\ file_diffs = <<>>
       /\ Returned => Last(history).result = <<>>
    \/ ~Headerless

C15_Witness ==
    /\ Returned
    /\ Headerless
    /\ HunkHeaderIdx # {}
    /\ current_hunk # None
    /\ Len(Get(current_hunk).lines) >= 2
    /\ Last(history).result = <<>>

\* f has the fields of a FileDiff, and its hunks the fields of a DiffHunk
IsFileDiff(f) ==
    /\ DOMAIN f = {"file_path", "old_path", "hunks", "is_new_file",
                   "is_deleted_file", "is_renamed"}
    /\ \A j \in 1..Len(f.hunks) :
           DOMAIN f.hunks[j] = {"old_start", "old_count", "new_start", "new_count",
                                "lines", "header"}

Malformed(l) == StartsWith(l, "@@") /\ HUNK_HEADER_PATTERN(l) = None

MalformedIdx == {k \in 1..Len(lines) : Malformed(lines[k])}

(***************************************************************************)
(* C17 as stated: a malformed hunk header makes parse raise, so no call    *)
(* reads past one: a running or returned call has read no malformed        *)
(* header.                                                                 *)
(***************************************************************************)
C17_MalformedHeaderRaises ==
    pc \in {"loop", "done"} => \A k \in MalformedIdx : i < k

(***************************************************************************)
(* C17 amended: a malformed hunk header raises nothing and is skipped: the *)
(* step that reads it opens and closes no hunk, changes no FileDiff and no *)
(* cursor, and moves to the next line; no call ends with a ValueError.     *)
(***************************************************************************)
C17_MalformedHeaderIsSkipped ==
    /\ [][(InLoop /\ Malformed(lines[i + 1])) => OnlyNextLine]_vars
    /\ [](pc # "ValueError")

C17_Witness ==
    /\ Returned
    /\ 2 \in MalformedIdx
    /\ HunkHeaderIdx = {1}
    /\ current_hunk # None
    /\ Len(Get(current_hunk).lines) = 1

\* the line being read, met while a hunk is open, has none of the header
\* forms and a first character that is none of "+", "-" and space
AtForeignLine ==
    /\ InLoop
    /\ current_hunk # None
    /\ (i + 1) \notin HeaderFormIdx
    /\ lines[i + 1] # ""
    /\ Char(lines[i + 1], 1) \notin {"+", "-", " "}

(***************************************************************************)
(* C18: while a hunk is open, a line of no header form whose first         *)
(* character is none of "+", "-", space is skipped: the step adds no       *)
(* DiffLine, leaves both cursors, the open hunk and the FileDiffs as they  *)
(* were, and moves to the next line.  The cursors of an open hunk count    *)
(* only the lines the hunk holds, so the lines after a skipped one are     *)
(* numbered as if it were not there.                                       *)
(***************************************************************************)
C18_ForeignLineInHunkIsIgnored ==
    /\ [][AtForeignLine => OnlyNextLine]_vars
    /\ [](pc = "loop" /\ current_hunk # None =>
              /\ new_line = Get(current_hunk).new_start + Len(NewSide(Get(current_hunk)))
              /\ old_line = Get(current_hunk).old_start + Len(OldSide(Get(current_hunk))))

C18_Witness ==
    /\ Returned
    /\ Len(lines) = 6
    /\ lines[4] = "\\ n"
    /\ lines[5] = "@@ -x +1 @@"
    /\ Len(file_diffs) = 1
    /\ Len(file_diffs[1].hunks) = 1
    /\ Len(file_diffs[1].hunks[1].lines) = 2
    /\ file_diffs[1].hunks[1].lines[1].new_line_number = Some(0)
    /\ file_diffs[1].hunks[1].lines[2].new_line_number = Some(1)

\* the calls of history made through parse_file, and those made through parse
FileCalls == {a \in 1..Len(history) : history[a].entry.fn = "parse_file"}
TextCalls == {a \in 1..Len(history) : history[a].entry.fn = "parse"}

(***************************************************************************)
(* C19: a call of parse_file on a readable file passes the whole text of   *)
(* the file to parse, and returns what a call of parse on that text        *)
(* returns; a call of parse_file on a file that cannot be read ends with   *)
(* the I/O error, starts no parsing and returns nothing.                   *)
(***************************************************************************)
C19_ParseFileIsParseOfTheContent ==
    /\ [](\A a \in FileCalls :
              /\ history[a].entry.file = Some(history[a].diff)
              /\ \A b \in TextCalls :
                     history[b].diff = Get(history[a].entry.file)
                         => history[a].result = history[b].result)
    /\ [][(calls' = calls + 1 /\ entry'.fn = "parse_file") =>
              IF entry'.file = None
              THEN /\ pc' = "OSError"
                   /\ UNCHANGED <<history, diff, lines, i, file_diffs, current_file,
                                  current_hunk>>
              ELSE pc' = "loop" /\ diff' = Get(entry'.file)]_vars
    /\ [](pc = "OSError" => entry = [fn |-> "parse_file", file |-> None])

C19_Witness ==
    /\ Len(history) = 2
    /\ FileCalls = {1}
    /\ TextCalls = {2}
    /\ history[1].entry.file = Some(history[2].diff)
    /\ Len(history[1].result) = 2
    /\ history[1].result = history[2].result

\* the positions of the addition lines of hunk h
AdditionIdx(h) == {k \in 1..Len(h.lines) : h.lines[k].line_type = "addition"}

\* the new-file line numbers of the addition lines of h, in textual order
AdditionNumbers(h) ==
    [r \in 1..Cardinality(AdditionIdx(h)) |->
        Get(h.lines[Nth(AdditionIdx(h), r)].new_line_number)]

(***************************************************************************)
(* C20: for every hunk of a result of parse, changedNewLines is the        *)
(* sequence of the newLineNumbers of the hunk's addition lines in textual  *)
(* order, and is as long as additions, whatever the hunk's newStart.       *)
(***************************************************************************)
C20_ChangedNewLinesAreTheAdditionNumbers ==
    Returned =>
        \A h \in HunksOf(file_diffs) :
            /\ Len(changed_new_lines(h)) = Len(additions(h))
            /\ changed_new_lines(h) = AdditionNumbers(h)

(***************************************************************************)
(* C21: the old content of a FileDiff is the contents of its context and   *)
(* deletion lines and the new content those of its context and addition    *)
(* lines, over the hunks in order and each hunk's lines in order.          *)
(***************************************************************************)
\* the positions <<hunk, line>> of the DiffLines of f whose type is in types
PositionsOf(f, types) ==
    {<<j, k>> : j \in 1..Len(f.hunks), k \in 1..MaxLines} \cap
    {p \in (1..Len(f.hunks)) \X (1..MaxLines) :
        /\ p[2] <= Len(f.hunks[p[1]].lines)
        /\ f.hunks[p[1]].lines[p[2]].line_type \in types}

Before(p, q) == p[1] < q[1] \/ (p[1] = q[1] /\ p[2] < q[2])

\* the contents at these positions, hunk by hunk and line by line
SideContents(f, types) ==
    LET P == PositionsOf(f, types)
        at(r) == CHOOSE p \in P : Cardinality({q \in P : Before(q, p)}) = r - 1
    IN  [r \in 1..Cardinality(P) |-> f.hunks[at(r)[1]].lines[at(r)[2]].content]

C21_ContentsAreTheSideLines ==
    Returned =>
        \A r \in 1..Len(file_diffs) :
            /\ old_content(file_diffs[r]) =
                   Join(SideContents(file_diffs[r], {"context", "deletion"}))
            /\ new_content(file_diffs[r]) =
                   Join(SideContents(file_diffs[r], {"context", "addition"}))

\* a file of two hunks: a deletion in the first, a context line in the second
C21_Witness ==
    /\ Returned
    /\ \E r \in 1..Len(file_diffs) :
          /\ Len(file_diffs[r].hunks) = 2
          /\ old_content(file_diffs[r]) = "q\nr"
          /\ new_content(file_diffs[r]) = "r"

(***************************************************************************)
(* C22: the total additions of a FileDiff are its addition lines counted   *)
(* over all hunks, the total deletions its deletion lines; with the        *)
(* context lines they are all the DiffLines of the file.                   *)
(***************************************************************************)
\* the positions <<hunk, line>> of all the DiffLines of f
AllPositions(f) ==
    {p \in (1..Len(f.hunks)) \X (1..MaxLines) : p[2] <= Len(f.hunks[p[1]].lines)}

C22_TotalsCountTheChangedLines ==
    Returned =>
        \A r \in 1..Len(file_diffs) :
            LET f == file_diffs[r]
            IN  /\ total_additions(f) = Cardinality(PositionsOf(f, {"addition"}))
                /\ total_deletions(f) = Cardinality(PositionsOf(f, {"deletion"}))
                /\ total_additions(f) + total_deletions(f)
                       + Cardinality(PositionsOf(f, {"context"}))
                     = Cardinality(AllPositions(f))
                /\ \A j \in 1..Len(f.hunks) : Len(f.hunks[j].lines) <= MaxLines

\* a file of two hunks: an addition in the first, a deletion in the second
C22_Witness ==
    /\ Returned
    /\ \E r \in 1..Len(file_diffs) :
          /\ Len(file_diffs[r].hunks) = 2
          /\ Len(additions(file_diffs[r].hunks[1])) = 1
          /\ Len(deletions(file_diffs[r].hunks[2])) = 1
          /\ total_additions(file_diffs[r]) = 1
          /\ total_deletions(file_diffs[r]) = 1

(***************************************************************************)
(* C23: in the result every DiffHunk stands for a hunk header of its own   *)
(* and every FileDiff for an opening line of its own: no hunk is in two    *)
(* files or twice in one, and no file is in the result twice.              *)
(***************************************************************************)
\* the places <<file, hunk>> of the hunks of the result
HunkPlaces ==
    {p \in (1..Len(file_diffs)) \X (1..Len(lines)) : p[2] <= Len(file_diffs[p[1]].hunks)}

HunkAt(p) == file_diffs[p[1]].hunks[p[2]]

\* f was opened by line k: a file header with its old path, or a `--- ` marker
FileOpenedBy(f, k) ==
    IF k \in FileHeaderIdx THEN HasOldPathOf(f, lines[k]) ELSE f.old_path = None

C23_NoHunkOrFileTwice ==
    Returned =>
        /\ \A r \in 1..Len(file_diffs) : Len(file_diffs[r].hunks) <= Len(lines)
        /\ \E a \in [HunkPlaces -> HunkHeaderIdx] :
              /\ \A p, q \in HunkPlaces : Before(p, q) => a[p] < a[q]
              /\ \A p \in HunkPlaces :
                    /\ OpenedBy(HunkAt(p), a[p])
                    /\ InOrderWithin(HunkAt(p).lines, a[p] + 1, HunkEnd(a[p]))
        /\ \E b \in [1..Len(file_diffs) -> OpenerIdx] :
              /\ \A r \in 1..(Len(file_diffs) - 1) : b[r] < b[r + 1]
              /\ \A r \in 1..Len(file_diffs) : FileOpenedBy(file_diffs[r], b[r])

\* two hunks with equal headers and equal bodies are two hunks of the result
C23_Witness ==
    /\ Returned
    /\ Cardinality(HunkHeaderIdx) = 2
    /\ Len(file_diffs) = 1
    /\ Len(file_diffs[1].hunks) = 2
    /\ file_diffs[1].hunks[1] = file_diffs[1].hunks[2]
    /\ file_diffs[1].hunks[1].lines # <<>>

(***************************************************************************)
(* C24: while a hunk is open, a `--- ` or `+++ ` line followed by text is  *)
(* read as a marker: no DiffLine is added for it, the cursors stay, and    *)
(* the hunk stays open for the body lines that follow.                     *)
(***************************************************************************)
IsMarkerLine(l) == Len(l) > 4 /\ (StartsWith(l, "--- ") \/ StartsWith(l, "+++ "))

\* no deletion was read from a `--- ` line and no addition from a `+++ ` line
NoMarkerAsBodyLine(h) ==
    \A k \in 1..Len(h.lines) :
        /\ h.lines[k].line_type = "deletion" => ~IsMarkerLine("-" \o h.lines[k].content)
        /\ h.lines[k].line_type = "addition" => ~IsMarkerLine("+" \o h.lines[k].content)

C24_MarkerInsideHunkIsAMarker ==
    /\ [][(InLoop /\ current_hunk # None /\ IsMarkerLine(lines[i + 1])) =>
              /\ pc' = "loop"
              /\ i' = i + 1
              /\ UNCHANGED <<file_diffs, current_hunk, old_line, new_line>>]_vars
    /\ [](current_hunk # None => NoMarkerAsBodyLine(Get(current_hunk)))
    /\ [](Returned => \A h \in HunksOf(file_diffs) : NoMarkerAsBodyLine(h))

\* a marker between the hunk header and an addition: the hunk of the result
\* has the addition alone, numbered from the header's new start
C24_Witness ==
    /\ Returned
    /\ Len(lines) = 4
    /\ 2 \in HunkHeaderIdx
    /\ IsMarkerLine(lines[3])
    /\ lines[4] = "+p"
    /\ Len(file_diffs) = 1
    /\ Len(file_diffs[1].hunks) = 1
    /\ file_diffs[1].hunks[1].lines = <<DiffLine("p", "addition", None, Some(0))>>

(***************************************************************************)
(* C25: every DiffHunk of a FileDiff was opened by a hunk header met while *)
(* that FileDiff was the current file; a hunk header met while no file is  *)
(* open, and its body, contribute nothing to the result.                   *)
(***************************************************************************)
\* the hunks of f, in order, were opened by hunk headers of the section r
HunksFromSection(f, r) ==
    \E a \in [1..Len(f.hunks) -> SectionHunkIdx(r)] :
        /\ \A j \in 1..(Len(f.hunks) - 1) : a[j] < a[j + 1]
        /\ \A j \in 1..Len(f.hunks) : OpenedBy(f.hunks[j], a[j])

C25_HunksComeFromTheirFileSection ==
    Returned =>
        /\ Len(file_diffs) = NumSections
        /\ \A r \in 1..Len(file_diffs) : HunksFromSection(file_diffs[r], r)

(***************************************************************************)
(* C26: a newline at the end of the text does not change the result:       *)
(* parse(t) and parse(t + "\n") are equal.                                 *)
(***************************************************************************)
C26_TrailingNewlineChangesNothing ==
    \A a, b \in 1..Len(history) :
        history[b].diff = history[a].diff \o "\n" =>
            history[b].result = history[a].result

(***************************************************************************)
(* C27: the rendering of a hunk h that parse produced has one text line    *)
(* per DiffLine, the marker followed by the content, and parsing a file    *)
(* header, h's hunk header and the rendering gives a hunk with h's lines.  *)
(***************************************************************************)
\* the second call was made on the rendering of a hunk, and has returned
RenderedReturned == Returned /\ derived # None /\ Get(derived).fn = "get_context"

RenderedLines(h) ==
    [k \in 1..Len(h.lines) |-> Marker(h.lines[k].line_type) \o h.lines[k].content]

C27_RenderingRoundTrips ==
    RenderedReturned =>
        LET h == Get(derived).arg
            result == Last(history).result
        IN  /\ Get(derived).result = Join(RenderedLines(h))
            /\ Len(result) = 1
            /\ Len(result[1].hunks) = 1
            /\ result[1].hunks[1].lines = h.lines

(***************************************************************************)
(* C28: parse terminates after one forward scan: every iteration of the    *)
(* loop, on every branch, consumes exactly one line, and the call returns  *)
(* when as many iterations as the input has lines have run.                *)
(***************************************************************************)
C28_ScanTerminates ==
    /\ [][InLoop => (pc' = "loop" /\ i' = i + 1 /\ UNCHANGED <<diff, lines>>)]_vars
    /\ [](Returned => (i = Len(lines) /\ lines = Split(diff)))
    /\ (pc = "loop") ~> Returned

\* the call on the text of two files has returned after four iterations
C28_Witness ==
    /\ Returned
    /\ i = 4
    /\ Len(lines) = 4
    /\ Len(file_diffs) = 2

(***************************************************************************)
(* C29: merge_ranges returns ranges sorted by start, each starting         *)
(* strictly after the one before it ends, that cover the integers the      *)
(* input ranges cover; no ranges give no ranges.                           *)
(***************************************************************************)
\* the integers of the half-open ranges [start, end)
Covered(ranges) == UNION {ranges[k][1]..(ranges[k][2] - 1) : k \in 1..Len(ranges)}

Merged == derived # None /\ Get(derived).fn = "merge_ranges"

C29_MergedRangesAreDisjointAndCoverTheInput ==
    Merged =>
        LET ranges == Get(derived).arg
            merged == Get(derived).result
        IN  /\ ranges = <<>> => merged = <<>>
            /\ \A k \in 1..(Len(merged) - 1) :
                  /\ merged[k][1] <= merged[k + 1][1]
                  /\ merged[k + 1][1] > merged[k][2]
            /\ Covered(merged) = Covered(ranges)

\* ranges given out of order: the two equal ones become one, the one apart
\* from them stays
C29_Witness ==
    /\ Merged
    /\ Get(derived).arg = <<<<2, 3>>, <<0, 1>>, <<0, 1>>>>
    /\ Get(derived).result = <<<<0, 1>>, <<2, 3>>>>

(***************************************************************************)
(* C30: every range extract_code_context computes for a hunk lies in the   *)
(* file: 0 <= start <= end <= n for a file of n lines, and every           *)
(* `... (lines a-b) ...` label of its result has a <= b.                   *)
(***************************************************************************)
Extracted == derived # None /\ Get(derived).fn = "extract_code_context"

IsLabel(l) == StartsWith(l, "... (lines ")

C30_RangesAreClippedToTheFile ==
    Extracted =>
        LET n == Len(Split(Get(derived).arg.full_content))
            ranges == Get(derived).ranges
            parts == Split(Get(derived).result)
        IN  /\ \A k \in 1..Len(ranges) :
                  /\ 0 <= ranges[k][1]
                  /\ ranges[k][1] <= ranges[k][2]
                  /\ ranges[k][2] <= n
            /\ \A k \in 1..Len(parts) :
                  IsLabel(parts[k]) =>
                      \E a, b \in 0..n :
                          /\ a <= b
                          /\ parts[k] = "... (lines " \o Dec(a) \o "-" \o Dec(b) \o ") ..."

====
